---- MODULE Spec2Model ----
(***************************************************************************)
(* A model of the hybrid register/stack virtual machine of src/src/lib.rs  *)
(* (cells, base, base stack, function table, blocks and function calls)    *)
(* and of the earlier flat machine of src/src/machine.rs (run_until).      *)
(*                                                                         *)
(* Option<T> values are modelled as sequences of length 0 (None) or 1      *)
(* (Some(x)); a Result is a record with an err field, "Ok" when it is Ok.  *)
(***************************************************************************)
EXTENDS Integers, Sequences, FiniteSets, TLC

VARIABLES
    stack,            \* the live Machine instances: stack[1] is the caller's
                      \* machine, stack[k+1] the child machine stack[k] is running
    result,           \* what the latest Machine::run on stack[1] returned
    running,          \* TRUE while Machine::run is executing on stack[1]
    hist,             \* the programs run so far on stack[1], in order
    overflow_checks,  \* TRUE in a build that panics on arithmetic overflow
    um,               \* machine.rs: the machine under run_until(program, limit)
    ur                \* machine.rs: the machine under run(first limit instructions)

vars == <<stack, result, running, hist, overflow_checks, um, ur>>

----------------------------------------------------------------------------
(* Bounds of the model *)

\* Width in bits of a modelled Immediate (the program's is 64).
Bits == 8
\* Total number of top-level instructions loaded on one machine over its life.
MaxProgLen == 3
\* Number of Machine::run calls on one machine instance.
MaxRuns == 2
\* Width in bits of a modelled Cell index (the program's is 16).
CellBits == 3

----------------------------------------------------------------------------
(* Immediate: a signed two's-complement integer of Bits bits *)

RECURSIVE Pow2(_)
Pow2(n) == IF n = 0 THEN 1 ELSE 2 * Pow2(n - 1)

Modulus == Pow2(Bits)
MinImm == 0 - Pow2(Bits - 1)
MaxImm == Pow2(Bits - 1) - 1

\* `x as u64`
ToUnsigned(x) == x % Modulus
\* `u as i64`
ToSigned(u) == IF u % Modulus >= Pow2(Bits - 1) THEN (u % Modulus) - Modulus ELSE u % Modulus
InRange(x) == MinImm <= x /\ x <= MaxImm

Abs(x) == IF x < 0 THEN 0 - x ELSE x
\* Rust's integer division truncates toward zero.
TruncDiv(a, b) ==
    IF (a < 0) = (b < 0) THEN Abs(a) \div Abs(b) ELSE 0 - (Abs(a) \div Abs(b))

RECURSIVE BitOp(_, _, _, _)
BitOp(op, u, v, n) ==
    IF n = 0 THEN 0
    ELSE LET x == u % 2
             y == v % 2
             bit == CASE op = "And" -> IF x = 1 /\ y = 1 THEN 1 ELSE 0
                      [] op = "Or"  -> IF x = 1 \/ y = 1 THEN 1 ELSE 0
                      [] op = "Xor" -> IF x # y THEN 1 ELSE 0
         IN bit + 2 * BitOp(op, u \div 2, v \div 2, n - 1)

Bitwise(op, a, b) == ToSigned(BitOp(op, ToUnsigned(a), ToUnsigned(b), Bits))
\* `!a` on a signed integer
BitNot(a) == (0 - a) - 1

----------------------------------------------------------------------------
(* Option and Result *)

None == <<>>
Some(x) == <<x>>
IsSome(o) == Len(o) = 1
Unwrap(o) == o[1]

\* MachineError variants (lib.rs) and the outcome of a panic (todo!(), overflow)
MachineErrors ==
    {"StackUnderflow", "InvalidCell", "DivisionByZero", "NoSavedCells", "RebaseError",
     "NoRebasedCells", "FunctionRedefinition", "FunctionUndefined", "FunctionCallError",
     "InstructionError", "OtherError"}
Panic == "Panic"
Ok == "Ok"

----------------------------------------------------------------------------
(* Instructions *)

NullaryOps == {"Nop", "Rebase"}
UnaryOpsCell == {"Not", "Read", "ReadReverse", "Tail"}
UnaryOpsImm == {"Push", "Pop"}
BinaryOps ==
    {"Add", "Mul", "Div", "And", "Or", "Xor",
     "ShiftLeftLogical", "ShiftRightLogical", "ShiftRightArithmetic",
     "SetEqual", "SetNotEqual", "SetLessThan", "SetLessThanOrEqual",
     "SetGreaterThan", "SetGreaterThanOrEqual"}
FunctionOps == {"FunctionDefine", "FunctionCall"}

\* Every instruction is a record of the same shape; unused fields are blank.
Instr(shape, op, a, b, body, name) ==
    [shape |-> shape, op |-> op, a |-> a, b |-> b, body |-> body, name |-> name]

AluNullary(op) == Instr("AluNullary", op, 0, 0, <<>>, "")
AluUnaryImm(op, imm) == Instr("AluUnaryImm", op, imm, 0, <<>>, "")
AluUnaryCell(op, reg) == Instr("AluUnaryCell", op, reg, 0, <<>>, "")
AluBinary(op, reg1, reg2) == Instr("AluBinary", op, reg1, reg2, <<>>, "")
Block(instructions) == Instr("Block", "Block", 0, 0, instructions, "")
AluFunction(op, name) == Instr("AluFunction", op, 0, 0, <<>>, name)

Nop == AluNullary("Nop")
Rebase == AluNullary("Rebase")
Push(v) == AluUnaryImm("Push", v)
Pop(n) == AluUnaryImm("Pop", n)
Read(i) == AluUnaryCell("Read", i)
ReadReverse(i) == AluUnaryCell("ReadReverse", i)
TailCall(i) == AluUnaryCell("Tail", i)
FunctionDefine(n) == AluFunction("FunctionDefine", n)
FunctionCall(n) == AluFunction("FunctionCall", n)

----------------------------------------------------------------------------
(* Machine and its cell-store operations (lib.rs) *)

EmptyTable == [n \in {} |-> Nop]

\* Machine::new. pc is the position of run's iterator (0: no run in progress);
\* err is the Result the instruction under evaluation has returned.
MachineNew ==
    [cells |-> <<>>, program |-> None, base |-> 0, base_stack |-> <<>>,
     function_data |-> [function_table |-> EmptyTable, new_function_declared |-> None],
     pc |-> 0, err |-> Ok]

\* impl From<&Vec<Instruction>> for Machine
MachineFrom(value) == [MachineNew EXCEPT !.program = Some(value)]

Fail(m, e) == [m EXCEPT !.err = e]

\* A push that inserts the value at the head of the store.
push_front(m, value) == [m EXCEPT !.cells = <<value>> \o @]

push(m, value) == [m EXCEPT !.cells = Append(@, value)]

\* Vec::pop through Machine::pop: the store without its last cell.
pop(cells) == SubSeq(cells, 1, Len(cells) - 1)

\* The loop of multi_pop: n pops, stopping at the first pop of an empty store.
RECURSIVE PopLoop(_, _)
PopLoop(m, n) ==
    IF n = 0 THEN m
    ELSE IF m.cells = <<>> THEN Fail(m, "StackUnderflow")
    ELSE PopLoop([m EXCEPT !.cells = pop(@)], n - 1)

\* A multi_pop that checks the count against the store before it pops anything.
multi_pop_checked(m, n) ==
    IF n < 0 THEN Fail(m, "InvalidCell")
    ELSE IF n > Len(m.cells) THEN Fail(m, "StackUnderflow")
    ELSE PopLoop(m, n)

multi_pop(m, n) == IF n < 0 THEN Fail(m, "InvalidCell") ELSE PopLoop(m, n)

\* Machine::read: the cell at index reg (0-based), or InvalidCell.
read(m, reg) ==
    IF reg + 1 \in DOMAIN m.cells
    THEN [err |-> Ok, val |-> m.cells[reg + 1]]
    ELSE [err |-> "InvalidCell", val |-> 0]

\* A rebase that sets base to the start of the store it leaves.
rebase_reset(m) ==
    IF m.base > Len(m.cells) THEN Fail(m, "RebaseError")
    ELSE [m EXCEPT !.cells = SubSeq(@, m.base + 1, Len(@)), !.base = 0]

\* A rebase that keeps what split_off leaves behind: the cells before base.
rebase_keep_head(m) ==
    IF m.base > Len(m.cells) THEN Fail(m, "RebaseError")
    ELSE [m EXCEPT !.cells = SubSeq(@, 1, m.base)]

rebase(m) ==
    IF m.base > Len(m.cells) THEN Fail(m, "RebaseError")
    ELSE [m EXCEPT !.cells = SubSeq(@, m.base + 1, Len(@))]

\* self.cells.last()
last(cells) == IF cells = <<>> THEN None ELSE Some(cells[Len(cells)])

----------------------------------------------------------------------------
(* Operator::eval for the four flat instruction shapes (lib.rs) *)

NullaryOp_eval(op, m) ==
    CASE op = "Nop" -> m
      [] op = "Rebase" -> rebase(m)

\* The largest value of a Cell.
MaxCell == Pow2(CellBits) - 1
\* u16::try_from(len).ok(): the length as a Cell, if it fits in one.
try_from(len) == IF len <= MaxCell THEN Some(len) ELSE None
\* Cell::checked_sub
checked_sub(a, b) == IF a >= b THEN Some(a - b) ELSE None

\* The index ReadReverse reads: len - 1 - arg with checked subtractions.
ReverseIndex(m, arg) ==
    LET len == try_from(Len(m.cells)) IN
    IF ~IsSome(len) THEN None
    ELSE LET top == checked_sub(Unwrap(len), 1) IN
         IF ~IsSome(top) THEN None ELSE checked_sub(Unwrap(top), arg)

UnaryOpCell_eval(op, m, arg) ==
    CASE op = "Not" ->
            LET r == read(m, arg) IN
            IF r.err # Ok THEN Fail(m, r.err) ELSE push(m, BitNot(r.val))
      [] op = "Read" ->
            LET r == read(m, arg) IN
            IF r.err # Ok THEN Fail(m, r.err) ELSE push(m, r.val)
      [] op = "ReadReverse" ->
            LET index == ReverseIndex(m, arg) IN
            IF ~IsSome(index) THEN Fail(m, "InvalidCell")
            ELSE LET r == read(m, Unwrap(index)) IN
                 IF r.err # Ok THEN Fail(m, r.err) ELSE push(m, r.val)
      [] op = "Tail" -> Fail(m, Panic)

UnaryOpImm_eval(op, m, arg) ==
    CASE op = "Push" -> push(m, arg)
      [] op = "Pop" -> multi_pop(m, arg)

\* A conversion that makes true the all-ones pattern.
from_bool_mask(value) == IF value THEN 0 - 1 ELSE 0

from_bool(value) == IF value THEN 1 ELSE 0

\* Arithmetic that overflows panics when overflow checks are on, and wraps otherwise.
Checked(x) ==
    IF InRange(x) THEN [err |-> Ok, val |-> x]
    ELSE IF overflow_checks THEN [err |-> Panic, val |-> 0]
    ELSE [err |-> Ok, val |-> ToSigned(x)]

RECURSIVE ShlBits(_, _)
ShlBits(u, n) == IF n = 0 THEN u ELSE ShlBits((2 * u) % Modulus, n - 1)

\* Shifts without the cast to unsigned: the logical right shift sign-extends.
ShiftSigned(op, a, b) ==
    IF (b < 0 \/ b >= Bits) /\ overflow_checks THEN [err |-> Panic, val |-> 0]
    ELSE LET n == b % Bits IN
         [err |-> Ok,
          val |-> CASE op = "ShiftLeftLogical" -> ToSigned(ShlBits(ToUnsigned(a), n))
                    [] OTHER -> a \div Pow2(n)]

\* A shift by a count outside 0 .. Bits-1 panics with overflow checks, and is
\* taken modulo the width otherwise.
Shift(op, a, b) ==
    IF (b < 0 \/ b >= Bits) /\ overflow_checks THEN [err |-> Panic, val |-> 0]
    ELSE LET n == b % Bits IN
         [err |-> Ok,
          val |-> CASE op = "ShiftLeftLogical" -> ToSigned(ShlBits(ToUnsigned(a), n))
                    [] op = "ShiftRightLogical" -> ToSigned(ToUnsigned(a) \div Pow2(n))
                    [] op = "ShiftRightArithmetic" -> a \div Pow2(n)]

\* a.checked_div(b): None on a zero divisor and on MIN / -1.
checked_div(a, b) ==
    IF b = 0 \/ (a = MinImm /\ b = 0 - 1) THEN None ELSE Some(TruncDiv(a, b))

Calculate(op, a, b) ==
    CASE op = "Add" -> Checked(a + b)
      [] op = "Mul" -> Checked(a * b)
      [] op = "Div" ->
            LET q == checked_div(a, b) IN
            IF IsSome(q) THEN [err |-> Ok, val |-> Unwrap(q)]
            ELSE [err |-> "DivisionByZero", val |-> 0]
      [] op \in {"And", "Or", "Xor"} -> [err |-> Ok, val |-> Bitwise(op, a, b)]
      [] op \in {"ShiftLeftLogical", "ShiftRightLogical", "ShiftRightArithmetic"} ->
            Shift(op, a, b)
      [] op = "SetEqual" -> [err |-> Ok, val |-> from_bool(a = b)]
      [] op = "SetNotEqual" -> [err |-> Ok, val |-> from_bool(a # b)]
      [] op = "SetLessThan" -> [err |-> Ok, val |-> from_bool(a < b)]
      [] op = "SetLessThanOrEqual" -> [err |-> Ok, val |-> from_bool(a <= b)]
      [] op = "SetGreaterThan" -> [err |-> Ok, val |-> from_bool(a > b)]
      [] op = "SetGreaterThanOrEqual" -> [err |-> Ok, val |-> from_bool(a >= b)]

\* An eval that does not look at the Result of its second read.
BinaryOp_eval_unchecked(op, m, reg1, reg2) ==
    LET a == read(m, reg1)
        b == read(m, reg2)
    IN  IF a.err # Ok THEN Fail(m, a.err)
        ELSE LET c == Calculate(op, a.val, b.val) IN
             IF c.err # Ok THEN Fail(m, c.err) ELSE push(m, c.val)

BinaryOp_eval(op, m, reg1, reg2) ==
    LET a == read(m, reg1)
        b == read(m, reg2)
    IN  IF a.err # Ok THEN Fail(m, a.err)
        ELSE IF b.err # Ok THEN Fail(m, b.err)
        ELSE LET c == Calculate(op, a.val, b.val) IN
             IF c.err # Ok THEN Fail(m, c.err) ELSE push(m, c.val)

----------------------------------------------------------------------------
(* Instruction::eval and the nested runs of Block and FunctionCall (lib.rs) *)

Cur(s) == s[Len(s)]
Parent(s) == s[Len(s) - 1]
Program(m) == Unwrap(m.program)
\* The instruction run's iterator has handed to eval.
Fetch(m) == Program(m)[m.pc]

\* An iterator that moves on whatever eval returned.
ProceedAlways(m) == [m EXCEPT !.pc = @ + 1]

\* try_for_each: the iterator moves on when eval returned Ok, and stops otherwise.
Proceed(m) == IF m.err = Ok THEN [m EXCEPT !.pc = @ + 1] ELSE m

SetCur(s, m) == [s EXCEPT ![Len(s)] = m]
\* The child machine is dropped and its parent becomes the current machine again.
Return(s, m) == [i \in 1 .. Len(s) - 1 |-> IF i = Len(s) - 1 THEN m ELSE s[i]]

\* A capture that slides across definitions: a FunctionDefine is never taken as
\* a body, and the name stays pending for the instruction after it.
CaptureSlide(m, instr) ==
    LET val == Unwrap(m.function_data.new_function_declared)
        table == m.function_data.function_table
    IN  IF val \in DOMAIN table THEN Fail(m, "FunctionRedefinition")
        ELSE IF instr.op = "FunctionDefine" THEN m
        ELSE [m EXCEPT !.function_data =
                 [function_table |->
                      [n \in DOMAIN table \cup {val} |-> IF n = val THEN instr ELSE table[n]],
                  new_function_declared |-> None]]

\* A capture that leaves the declaration pending.
CaptureKeepPending(m, instr) ==
    LET val == Unwrap(m.function_data.new_function_declared)
        table == m.function_data.function_table
    IN  IF val \in DOMAIN table THEN Fail(m, "FunctionRedefinition")
        ELSE [m EXCEPT !.function_data.function_table =
                 [n \in DOMAIN table \cup {val} |-> IF n = val THEN instr ELSE table[n]]]

\* Instruction::eval, first lines: a pending declaration takes the instruction.
Capture(m, instr) ==
    LET val == Unwrap(m.function_data.new_function_declared)
        table == m.function_data.function_table
    IN  IF val \in DOMAIN table THEN Fail(m, "FunctionRedefinition")
        ELSE [m EXCEPT !.function_data =
                 [function_table |->
                      [n \in DOMAIN table \cup {val} |-> IF n = val THEN instr ELSE table[n]],
                  new_function_declared |-> None]]

\* A definition that does not look the name up in the table.
DefineUnchecked(m, arg) == [m EXCEPT !.function_data.new_function_declared = Some(arg)]

\* FunctionOp::eval, FunctionDefine arm
Define(m, arg) ==
    IF arg \in DOMAIN m.function_data.function_table
    THEN Fail(m, "FunctionRedefinition")
    ELSE [m EXCEPT !.function_data.new_function_declared = Some(arg)]

\* A block that starts with its parent's function table and pending name.
BlockMachineTable(m, instructions) ==
    [MachineFrom(instructions) EXCEPT
        !.cells = m.cells,
        !.base_stack = Append(@, m.base),
        !.base = Len(m.cells),
        !.function_data = m.function_data,
        !.pc = 1]

\* A block that does not save its parent's base.
BlockMachineUnsaved(m, instructions) ==
    [MachineFrom(instructions) EXCEPT !.cells = m.cells, !.base = Len(m.cells), !.pc = 1]

\* A block that takes over its parent's stack of saved bases.
BlockMachineInherit(m, instructions) ==
    [MachineFrom(instructions) EXCEPT
        !.cells = m.cells,
        !.base_stack = Append(m.base_stack, m.base),
        !.base = Len(m.cells),
        !.pc = 1]

\* A block that starts from an empty store instead of a copy of its parent's.
BlockMachineEmpty(m, instructions) ==
    [MachineFrom(instructions) EXCEPT !.base_stack = Append(@, m.base), !.pc = 1]

\* Block arm, up to the call of block_machine.run(): the child machine.
BlockMachine(m, instructions) ==
    [MachineFrom(instructions) EXCEPT
        !.cells = m.cells,
        !.base_stack = Append(@, m.base),
        !.base = Len(m.cells),
        !.pc = 1]

\* A merge of the values the block itself pushed only: the child's last cell
\* counts when the child's store is longer than the one it was entered with.
BlockMergeOwn(m, block_machine) ==
    LET block_result == IF Len(block_machine.cells) > block_machine.base
                        THEN last(block_machine.cells) ELSE None
        merged == IF IsSome(block_result) THEN push(m, Unwrap(block_result)) ELSE m
    IN  IF block_machine.base_stack = <<>> THEN Fail(merged, "RebaseError")
        ELSE [merged EXCEPT
                 !.base = block_machine.base_stack[Len(block_machine.base_stack)]]

\* A block that runs on its parent's own store: the parent is left with the
\* child's cells.
BlockMergeShared(m, block_machine) == [m EXCEPT !.cells = block_machine.cells]

\* Block arm, after block_machine.run() returned Ok(block_result).
BlockMerge(m, block_machine) ==
    LET block_result == last(block_machine.cells)
        merged == IF IsSome(block_result) THEN push(m, Unwrap(block_result)) ELSE m
    IN  IF block_machine.base_stack = <<>> THEN Fail(merged, "RebaseError")
        ELSE [merged EXCEPT
                 !.base = block_machine.base_stack[Len(block_machine.base_stack)]]

\* A callee that starts with the caller's function table.
FunctionMachineShared(m, instructions) ==
    [MachineFrom(<<instructions>>) EXCEPT
        !.cells = m.cells,
        !.function_data.function_table = m.function_data.function_table,
        !.pc = 1]

\* A callee that starts on an empty store instead of a copy of the caller's.
FunctionMachineEmpty(m, instructions) == [MachineFrom(<<instructions>>) EXCEPT !.pc = 1]

\* FunctionCall arm, up to the call of function_machine.run(): the child machine.
FunctionMachine(m, instructions) ==
    [MachineFrom(<<instructions>>) EXCEPT !.cells = m.cells, !.pc = 1]

\* FunctionCall arm, after function_machine.run() returned Ok(function_result).
CallMerge(m, function_machine) ==
    LET function_result == last(function_machine.cells)
    IN  IF IsSome(function_result) THEN push(m, Unwrap(function_result)) ELSE m

\* What the current machine does next.
Kind(s) ==
    LET m == Cur(s) IN
    IF m.err # Ok THEN (IF Len(s) > 1 THEN "ChildFail" ELSE "RunFail")
    ELSE IF m.pc > Len(Program(m))
         THEN (IF Len(s) = 1 THEN "RunReturn"
               ELSE IF Fetch(Parent(s)).shape = "Block" THEN "BlockReturn"
               ELSE "CallReturn")
    ELSE IF IsSome(m.function_data.new_function_declared) THEN "Capture"
    ELSE IF Fetch(m).shape = "AluFunction" THEN Fetch(m).op
    ELSE Fetch(m).shape

DoCapture(s) == SetCur(s, Proceed(Capture(Cur(s), Fetch(Cur(s)))))
DoNullary(s) == SetCur(s, Proceed(NullaryOp_eval(Fetch(Cur(s)).op, Cur(s))))
DoUnaryImm(s) == SetCur(s, Proceed(UnaryOpImm_eval(Fetch(Cur(s)).op, Cur(s), Fetch(Cur(s)).a)))
DoUnaryCell(s) == SetCur(s, Proceed(UnaryOpCell_eval(Fetch(Cur(s)).op, Cur(s), Fetch(Cur(s)).a)))
DoBinary(s) ==
    SetCur(s, Proceed(BinaryOp_eval(Fetch(Cur(s)).op, Cur(s), Fetch(Cur(s)).a, Fetch(Cur(s)).b)))
DoBlock(s) == Append(s, BlockMachine(Cur(s), Fetch(Cur(s)).body))
DoBlockReturn(s) == Return(s, Proceed(BlockMerge(Parent(s), Cur(s))))
DoFunctionDefine(s) == SetCur(s, Proceed(Define(Cur(s), Fetch(Cur(s)).name)))
\* A call that skips a name the table does not hold.
DoFunctionCallLenient(s) ==
    LET m == Cur(s)
        arg == Fetch(m).name
    IN  IF arg \notin DOMAIN m.function_data.function_table
        THEN SetCur(s, Proceed(m))
        ELSE Append(s, FunctionMachine(m, m.function_data.function_table[arg]))

DoFunctionCall(s) ==
    LET m == Cur(s)
        arg == Fetch(m).name
    IN  IF arg \notin DOMAIN m.function_data.function_table
        THEN SetCur(s, Fail(m, "FunctionUndefined"))
        ELSE Append(s, FunctionMachine(m, m.function_data.function_table[arg]))
DoCallReturn(s) == Return(s, Proceed(CallMerge(Parent(s), Cur(s))))
\* A parent that merges the child's last cell before it looks at the child's
\* Result.
DoChildFailMerged(s) == Return(s, Fail(CallMerge(Parent(s), Cur(s)), Cur(s).err))

\* `?` on the child's run(): the parent's eval returns the child's error.
DoChildFail(s) == Return(s, Fail(Parent(s), Cur(s).err))

\* One step of the machines of s, for the kinds that stay inside a run.
StepStack(s) ==
    CASE Kind(s) = "Capture" -> DoCapture(s)
      [] Kind(s) = "AluNullary" -> DoNullary(s)
      [] Kind(s) = "AluUnaryImm" -> DoUnaryImm(s)
      [] Kind(s) = "AluUnaryCell" -> DoUnaryCell(s)
      [] Kind(s) = "AluBinary" -> DoBinary(s)
      [] Kind(s) = "Block" -> DoBlock(s)
      [] Kind(s) = "BlockReturn" -> DoBlockReturn(s)
      [] Kind(s) = "FunctionDefine" -> DoFunctionDefine(s)
      [] Kind(s) = "FunctionCall" -> DoFunctionCall(s)
      [] Kind(s) = "CallReturn" -> DoCallReturn(s)
      [] Kind(s) = "ChildFail" -> DoChildFail(s)

\* Machine::run, its end: Ok(self.cells.last()), or the first error.
RunResult(m) ==
    IF m.err = Ok THEN [err |-> Ok, val |-> last(m.cells)] ELSE [err |-> m.err, val |-> None]
\* A run that drops a declaration still pending when it returns.
AtRestForgetsPending(m) ==
    [m EXCEPT !.pc = 0, !.err = Ok, !.function_data.new_function_declared = None]

\* The machine once run has returned: no iterator, no Result in flight.
AtRest(m) == [m EXCEPT !.pc = 0, !.err = Ok]
NoResult == [err |-> "NoResult", val |-> None]

\* Machine::run from its first instruction to its return: the machines of s
\* step until the caller's machine has finished or failed.
RECURSIVE Drive(_)
Drive(s) ==
    IF Len(s) = 1 /\ Kind(s) \in {"RunReturn", "RunFail"} THEN s[1] ELSE Drive(StepStack(s))

\* Machine::new, load_program(program), run: the machine when run returns.
RunFresh(program) == Drive(<<[MachineFrom(program) EXCEPT !.pc = 1]>>)

----------------------------------------------------------------------------
(* The programs the model loads *)

Add(i, j) == AluBinary("Add", i, j)
Mul(i, j) == AluBinary("Mul", i, j)
Div(i, j) == AluBinary("Div", i, j)

\* block_tests and function_tests of lib.rs
test_no_arg == <<Push(10), Push(20), Add(0, 1), Block(<<Push(2), Mul(2, 3)>>), Add(2, 3)>>
test_nested ==
    <<Push(3), Block(<<Push(4), Block(<<Push(5), Mul(1, 2)>>), Add(0, 2)>>)>>
square_block == Block(<<ReadReverse(0), ReadReverse(0), Rebase, Mul(0, 1)>>)
test_square_fn == <<Push(2), square_block, square_block>>
test_with_pop == <<Push(3), Push(5), Block(<<Pop(2)>>), Mul(0, 1)>>
test_nested_rebase_2 ==
    <<Push(2),
      Block(<<Push(3), Rebase,
              Block(<<ReadReverse(0), Push(4), Rebase, Mul(0, 1)>>),
              Add(0, 1)>>)>>
square_body == Block(<<ReadReverse(0), Rebase, Mul(0, 0)>>)
test_simple_function ==
    <<FunctionDefine("square"), square_body, Push(3), FunctionCall("square")>>
test_sequential_definitions ==
    <<FunctionDefine("square"), FunctionDefine("cube"), FunctionDefine("nothing"),
      Push(2), FunctionCall("square"), FunctionCall("brr")>>

TestPrograms ==
    {test_no_arg, test_nested, test_square_fn, test_with_pop, test_nested_rebase_2,
     test_simple_function, test_sequential_definitions}

\* The instructions the generated programs are made of: the cell store and blocks.
Alphabet ==
    {Push(3), Push(5), Pop(0), Pop(2), Pop(0 - 1), Mul(0, 1),
     Block(<<Pop(2)>>), Block(<<Push(2), Mul(1, 2)>>),
     Block(<<Push(4), Block(<<Pop(1), Push(7)>>), Rebase>>)}

\* The instructions the generated programs are made of: the function table.
FnAlphabet ==
    {FunctionDefine("square"), FunctionDefine("cube"),
     FunctionCall("square"), FunctionCall("cube"),
     Push(3), Pop(1), square_body,
     Block(<<FunctionDefine("square"), Push(7), FunctionCall("square")>>)}

\* The instructions the generated programs are made of: reads, pops and rebases.
CellAlphabet ==
    {Push(3), Push(5), Pop(1), Rebase, Read(1), ReadReverse(0), ReadReverse(1),
     Block(<<Pop(1), Rebase>>), Block(<<Push(4), Rebase, ReadReverse(0)>>)}

\* n pushes, of the values 1 .. n.
Pushes(n) == [i \in 1 .. n |-> Push(i)]

\* A store one cell longer than a Cell can count, then a read from its top.
LongStore == {Pushes(MaxCell + 1) \o <<ReadReverse(k)>> : k \in {0, 1}}

\* Operand values: the ends of the range, both signs, zero, and the shift
\* counts just inside and outside the width.
AluValues == {MinImm, 0 - 8, 0 - 1, 0, 1, 2, 5, 20, Bits - 1, Bits, MaxImm}

\* One instruction that reads cells, after one or two pushes, at the top level
\* or inside a block.
AluPrograms ==
    {<<Push(a), Push(b), AluBinary(op, 0, 1)>> : a \in AluValues, b \in AluValues, op \in BinaryOps}
    \cup {<<Push(a), AluBinary(op, i, 1 - i)>> : a \in AluValues, op \in BinaryOps, i \in {0, 1}}
    \cup {<<Push(a), AluUnaryCell(op, i)>> : a \in AluValues, op \in UnaryOpsCell, i \in {0, 1}}
    \cup {<<Push(a), Block(<<Push(b), AluBinary("Div", 0, i)>>)>> :
              a \in AluValues, b \in {0, 5}, i \in {1, 2}}

\* The stores a nested run starts from, as the pushes that make them.
NestStores == {<<>>, <<Push(3)>>, <<Push(3), Push(5)>>}

\* Blocks without function instructions: blocks that push nothing, pop what they
\* inherited, fail after changing their store, rebase twice, and nest.
NestBlocks ==
    {Block(<<Nop>>), Block(<<Pop(2)>>), Block(<<Push(7)>>), Block(<<Push(4), Pop(3)>>),
     Block(<<Push(0), Div(0, 1)>>), square_body, Block(<<Rebase, Rebase>>),
     Block(<<Push(4), Push(6), Rebase, Rebase>>),
     Block(<<Push(4), Block(<<Push(6), Rebase>>), Rebase>>)}

\* The instructions stored as the body of f.
NestBodies ==
    NestBlocks
    \cup {Pop(2), Push(9), Rebase, FunctionCall("f"), FunctionDefine("g"),
          Block(<<FunctionCall("f")>>)}

\* Blocks that call and define functions.
TableBlocks ==
    {Block(<<FunctionCall("f")>>), Block(<<FunctionDefine("f"), Nop, FunctionCall("f")>>),
     Block(<<FunctionDefine("g"), Push(7)>>), Block(<<FunctionDefine("g")>>)}

\* A block or a Rebase on each store; a function defined and called on each
\* store; a block that uses the function table while f is bound outside it,
\* followed by an instruction of the enclosing list.
NestPrograms ==
    {s \o <<b>> : s \in NestStores, b \in NestBlocks \cup {Rebase}}
    \cup {s \o <<FunctionDefine("f"), b, FunctionCall("f")>> : s \in NestStores, b \in NestBodies}
    \cup {<<FunctionDefine("f"), Push(9), b, t>> :
              b \in TableBlocks \cup {FunctionCall("f")}, t \in {FunctionCall("g"), Push(1)}}
    \cup {<<FunctionDefine("f"), FunctionDefine("g"), FunctionCall("f"), t>> :
              t \in {FunctionCall("g"), Push(1)}}

ProgramsUpTo(alphabet, n) == UNION {[1 .. k -> alphabet] : k \in 0 .. n}

RECURSIVE Concat(_)
Concat(ps) == IF ps = <<>> THEN <<>> ELSE Head(ps) \o Concat(Tail(ps))
\* The instructions the model may still load on this machine.
Budget == IF Len(Concat(hist)) >= MaxProgLen THEN 0 ELSE MaxProgLen - Len(Concat(hist))

----------------------------------------------------------------------------
(* Actions *)

Idle == ~running /\ result.err # Panic /\ Len(hist) < MaxRuns
\* The loaded program, if any, has been run (loading over a program that was
\* never run is the same as loading the second program alone).
Spent == IsSome(stack[1].program) => hist # <<>> /\ hist[Len(hist)] = Program(stack[1])

\* The programs the model may load now.
Loadable(alphabet) == ProgramsUpTo(alphabet, Budget) \cup (IF hist = <<>> THEN TestPrograms ELSE {})

\* Machine::load_program
load_program(program) ==
    /\ stack' = [stack EXCEPT ![1].program = Some(program)]
    /\ UNCHANGED <<result, running, hist, overflow_checks, um, ur>>

Load(alphabet) ==
    Idle /\ Spent /\ \E program \in Loadable(alphabet) : load_program(program)

\* The first program of a machine is loaded, out of a given set.
LoadFirst(programs) ==
    Idle /\ Spent /\ hist = <<>> /\ \E program \in programs : load_program(program)

\* Machine::run is called: without a program it fails at once, with one the
\* iterator starts at its first instruction.
run ==
    /\ Idle
    /\ IF ~IsSome(stack[1].program)
       THEN /\ result' = [err |-> "OtherError", val |-> None]
            /\ UNCHANGED <<stack, running, hist>>
       ELSE /\ hist = <<>> \/ Len(Program(stack[1])) <= Budget
            /\ stack' = [stack EXCEPT ![1].pc = 1]
            /\ running' = TRUE
            /\ result' = NoResult
            /\ hist' = Append(hist, Program(stack[1]))
    /\ UNCHANGED <<overflow_checks, um, ur>>

rest == <<result, running, hist, overflow_checks, um, ur>>

\* Instruction::eval with a declaration pending: the instruction becomes its body.
EvalCapture ==
    /\ running
    /\ Kind(stack) = "Capture"
    /\ stack' = DoCapture(stack)
    /\ UNCHANGED rest

\* Instruction::eval, AluNullary arm
EvalNullary ==
    /\ running
    /\ Kind(stack) = "AluNullary"
    /\ stack' = DoNullary(stack)
    /\ UNCHANGED rest

\* Instruction::eval, AluUnaryImm arm
EvalUnaryImm ==
    /\ running
    /\ Kind(stack) = "AluUnaryImm"
    /\ stack' = DoUnaryImm(stack)
    /\ UNCHANGED rest

\* Instruction::eval, AluUnaryCell arm
EvalUnaryCell ==
    /\ running
    /\ Kind(stack) = "AluUnaryCell"
    /\ stack' = DoUnaryCell(stack)
    /\ UNCHANGED rest

\* Instruction::eval, AluBinary arm
EvalBinary ==
    /\ running
    /\ Kind(stack) = "AluBinary"
    /\ stack' = DoBinary(stack)
    /\ UNCHANGED rest

\* Instruction::eval, Block arm: the child machine starts its run.
EvalBlock ==
    /\ running
    /\ Kind(stack) = "Block"
    /\ stack' = DoBlock(stack)
    /\ UNCHANGED rest

\* Block arm: the child's run returned Ok; its last cell is merged.
BlockReturn ==
    /\ running
    /\ Kind(stack) = "BlockReturn"
    /\ stack' = DoBlockReturn(stack)
    /\ UNCHANGED rest

\* Instruction::eval, AluFunction arm, FunctionDefine
EvalFunctionDefine ==
    /\ running
    /\ Kind(stack) = "FunctionDefine"
    /\ stack' = DoFunctionDefine(stack)
    /\ UNCHANGED rest

\* AluFunction arm, FunctionCall: FunctionUndefined, or the child machine starts.
EvalFunctionCall ==
    /\ running
    /\ Kind(stack) = "FunctionCall"
    /\ stack' = DoFunctionCall(stack)
    /\ UNCHANGED rest

\* FunctionCall: the child's run returned Ok; its last cell is merged.
CallReturn ==
    /\ running
    /\ Kind(stack) = "CallReturn"
    /\ stack' = DoCallReturn(stack)
    /\ UNCHANGED rest

\* The child's run returned an error: the parent's instruction fails with it.
ChildFail ==
    /\ running
    /\ Kind(stack) = "ChildFail"
    /\ stack' = DoChildFail(stack)
    /\ UNCHANGED rest

\* run returns to its caller, with the last cell or with the first error.
RunEnd ==
    /\ running
    /\ Kind(stack) \in {"RunReturn", "RunFail"}
    /\ result' = RunResult(stack[1])
    /\ stack' = <<AtRest(stack[1])>>
    /\ running' = FALSE
    /\ UNCHANGED <<hist, overflow_checks, um, ur>>

-----------------------------------------------------------------------------
(* The flat machine of machine.rs and instructions.rs: a cell store and no
   blocks or functions.  um is a machine inside run_until(program, limit), ur a
   second machine inside run of the truncated program. *)

RegNot(r) == Instr("AluUnaryReg", "Not", r, 0, <<>>, "")
RegRead(r) == Instr("AluUnaryReg", "Read", r, 0, <<>>, "")
RegPop(n) == Instr("AluUnaryReg", "Pop", n, 0, <<>>, "")

\* Machine::new of machine.rs, with no call in progress.
machine_new ==
    [cells |-> <<>>, program |-> <<>>, limit |-> 0, pc |-> 0, err |-> Ok, result |-> NoResult]

machine_push(c, value) == [c EXCEPT !.cells = Append(@, value)]

RECURSIVE machine_multi_pop(_, _)
\* for _ in 0..n { self.pop()?; }
machine_multi_pop(c, n) ==
    IF n = 0 THEN c
    ELSE IF c.cells = <<>> THEN [c EXCEPT !.err = "StackUnderflow"]
    ELSE machine_multi_pop([c EXCEPT !.cells = SubSeq(@, 1, Len(@) - 1)], n - 1)

\* Machine::read of machine.rs: the cell at an absolute index, if there is one.
machine_read(c, reg) == IF reg < Len(c.cells) THEN Some(c.cells[reg + 1]) ELSE None

UnaryOpReg_eval(op, c, arg) ==
    CASE op = "Pop" -> machine_multi_pop(c, arg)
      [] OTHER ->
            LET val == machine_read(c, arg) IN
            IF ~IsSome(val) THEN [c EXCEPT !.err = "InvalidRegister"]
            ELSE IF op = "Not" THEN machine_push(c, BitNot(Unwrap(val)))
            ELSE machine_push(c, Unwrap(val))

machine_BinaryOp_eval(op, c, reg1, reg2) ==
    LET a == machine_read(c, reg1)
        b == machine_read(c, reg2)
    IN  IF ~IsSome(a) \/ ~IsSome(b) THEN [c EXCEPT !.err = "InvalidRegister"]
        ELSE LET v == Calculate(op, Unwrap(a), Unwrap(b)) IN
             IF v.err # Ok THEN [c EXCEPT !.err = v.err] ELSE machine_push(c, v.val)

\* Machine::evaluate_instruction, and try_for_each moving on when it returned Ok.
evaluate_instruction(c) ==
    LET instruction == c.program[c.pc]
        after == CASE instruction.shape = "AluNullary" -> c
                   [] instruction.shape = "AluUnaryImm" -> machine_push(c, instruction.a)
                   [] instruction.shape = "AluUnaryReg" ->
                         UnaryOpReg_eval(instruction.op, c, instruction.a)
                   [] instruction.shape = "AluBinary" ->
                         machine_BinaryOp_eval(instruction.op, c, instruction.a, instruction.b)
    IN  IF after.err = Ok THEN [after EXCEPT !.pc = @ + 1] ELSE after

\* An iterator that yields every instruction of the program.
take_all(c) == c.pc <= Len(c.program)

\* program.iter().take(limit) has a next instruction.
take(c) == c.pc <= Len(c.program) /\ c.pc <= c.limit

\* A fresh machine on which run_until(program, limit) has been called.
run_until(program, limit) ==
    [machine_new EXCEPT !.program = program, !.limit = limit, !.pc = 1]

\* A fresh machine on which run(program) has been called.
machine_run(program) == run_until(program, Len(program))

\* &program[..n], and the whole program when n is past its end.
Truncate(program, n) == IF n <= Len(program) THEN SubSeq(program, 1, n) ELSE program

FlatAlphabet ==
    {Push(3), Push(0), RegPop(2), RegRead(0), RegNot(1), Add(0, 1), Div(0, 1)}

InCall(c) == c.pc > 0 /\ c.result = NoResult

\* The two calls are made, each on a machine of its own.
Call ==
    /\ um.pc = 0
    /\ \E program \in ProgramsUpTo(FlatAlphabet, MaxProgLen) :
           \E limit \in 0 .. Len(program) + 1 :
               /\ um' = run_until(program, limit)
               /\ ur' = machine_run(Truncate(program, limit))
    /\ UNCHANGED <<stack, result, running, hist, overflow_checks>>

UntilEval ==
    /\ InCall(um) /\ um.err = Ok /\ take(um)
    /\ um' = evaluate_instruction(um)
    /\ UNCHANGED <<stack, result, running, hist, overflow_checks, ur>>

\* `?` after try_for_each, and Ok(self.cells.last())
UntilReturn ==
    /\ InCall(um) /\ (um.err # Ok \/ ~take(um))
    /\ um' = [um EXCEPT !.result = RunResult(um)]
    /\ UNCHANGED <<stack, result, running, hist, overflow_checks, ur>>

RunEval ==
    /\ InCall(ur) /\ ur.err = Ok /\ take(ur)
    /\ ur' = evaluate_instruction(ur)
    /\ UNCHANGED <<stack, result, running, hist, overflow_checks, um>>

RunReturn ==
    /\ InCall(ur) /\ (ur.err # Ok \/ ~take(ur))
    /\ ur' = [ur EXCEPT !.result = RunResult(ur)]
    /\ UNCHANGED <<stack, result, running, hist, overflow_checks, um>>

-----------------------------------------------------------------------------

Init ==
    /\ stack = <<MachineNew>>
    /\ result = NoResult
    /\ running = FALSE
    /\ hist = <<>>
    /\ overflow_checks \in BOOLEAN
    /\ um = machine_new
    /\ ur = machine_new

\* The steps of a run in progress.
Step ==
    \/ run
    \/ EvalCapture
    \/ EvalNullary
    \/ EvalUnaryImm
    \/ EvalUnaryCell
    \/ EvalBinary
    \/ EvalBlock
    \/ BlockReturn
    \/ EvalFunctionDefine
    \/ EvalFunctionCall
    \/ CallReturn
    \/ ChildFail
    \/ RunEnd

Next == Load(Alphabet) \/ Step

Spec == Init /\ [][Next]_vars

NextFn == Load(FnAlphabet) \/ Step

\* The machine under programs that define and call functions.
SpecFn == Init /\ [][NextFn]_vars

\* Programs of pushes only: every length up to one past what a Cell can count,
\* and the ends of the range of an Immediate.
PushOnly == {Pushes(n) : n \in 0 .. MaxCell + 1} \cup {<<Push(MinImm), Push(0), Push(MaxImm)>>}

\* The programs a machine of SpecCell may be given.
FirstCell == ProgramsUpTo(CellAlphabet, MaxProgLen) \cup LongStore \cup PushOnly \cup TestPrograms

NextCell == LoadFirst(FirstCell) \/ Step

\* The machine under programs that read, pop and rebase.
SpecCell == Init /\ [][NextCell]_vars

\* The programs a machine of SpecAlu may be given.
FirstAlu == AluPrograms \cup TestPrograms

NextAlu == LoadFirst(FirstAlu) \/ Step

\* The machine under programs of one arithmetic, bitwise, shift or comparison
\* instruction on chosen operands.
SpecAlu == Init /\ [][NextAlu]_vars

\* The programs a machine of SpecNest may be given.
FirstNest == NestPrograms \cup TestPrograms

NextNest == LoadFirst(FirstNest) \/ Step

\* The machine under programs of blocks and function calls on chosen stores.
SpecNest == Init /\ [][NextNest]_vars

NextUntil == Call \/ UntilEval \/ UntilReturn \/ RunEval \/ RunReturn
SpecUntil == Init /\ [][NextUntil]_vars

----------------------------------------------------------------------------
(* Properties *)

\* after is before with at most one value appended.
AtMostOneAppended(before, after) ==
    \/ after = before
    \/ Len(after) = Len(before) + 1 /\ SubSeq(after, 1, Len(before)) = before

\* A machine with a child running is not touched until the child has returned.
ParentsKept ==
    \A i \in 1 .. Len(stack) - 1 : i < Len(stack') => stack'[i] = stack[i]

\* C1: a Block that completes successfully leaves its parent's cell store as it
\* was before the Block, with at most one value appended: the parent is not
\* touched from the moment the child machine is made to the moment its run
\* returns, whatever the block's instructions do, and the merge then keeps every
\* cell at its index and adds 0 or 1 cell.
C1_BlockFrame ==
    [][/\ ParentsKept
       /\ (running /\ Kind(stack) = "Block") =>
              Len(stack') = Len(stack) + 1 /\ stack'[Len(stack)] = Cur(stack)
       /\ (running /\ Kind(stack) = "BlockReturn" /\ Cur(stack').err = Ok) =>
              /\ Len(stack') = Len(stack) - 1
              /\ AtMostOneAppended(Parent(stack).cells, Cur(stack').cells)]_vars

\* The instruction the current machine has just evaluated.
JustEvaluated(m) == Program(m)[m.pc - 1]

\* A nested block that pushed, popped an inherited cell in an inner block and
\* rebased has returned: its parent [3] has become [3, 7].
C1_Witness ==
    /\ running
    /\ Len(stack) = 1
    /\ stack[1].pc > 1
    /\ stack[1].err = Ok
    /\ JustEvaluated(stack[1]) = Block(<<Push(4), Block(<<Pop(1), Push(7)>>), Rebase>>)
    /\ hist = <<<<Push(3), JustEvaluated(stack[1])>>>>
    /\ stack[1].cells = <<3, 7>>

\* stack[i] is the child machine of a Block.
BlockChild(i) == i > 1 /\ Fetch(stack[i - 1]).shape = "Block"
\* m has evaluated no Rebase and no Pop of its own list yet.
Untouched(m) ==
    /\ m.err = Ok
    /\ \A j \in 1 .. m.pc - 1 : Program(m)[j].op \notin {"Rebase", "Pop"}

Pending(m) == m.function_data.new_function_declared
Table(m) == m.function_data.function_table
\* The current machine is about to evaluate an instruction.
Evaluating == running /\ Cur(stack).err = Ok /\ Cur(stack).pc <= Len(Program(Cur(stack)))

C4_NoRedefinition ==
    [][/\ (running /\ Kind(stack) = "FunctionDefine"
               /\ Fetch(Cur(stack)).name \in DOMAIN Table(Cur(stack))) =>
              stack' = SetCur(stack, Fail(Cur(stack), "FunctionRedefinition"))
       /\ \A i \in 1 .. Len(stack) :
              i <= Len(stack') =>
                  \A f \in DOMAIN Table(stack[i]) :
                      f \in DOMAIN Table(stack'[i]) /\ Table(stack'[i])[f] = Table(stack[i])[f]]_vars

\* A second FunctionDefine("square") has failed, in a later run than the first.
C4_Witness ==
    /\ running
    /\ Len(hist) = 2
    /\ Cur(stack).err = "FunctionRedefinition"
    /\ Fetch(Cur(stack)) = FunctionDefine("square")
    /\ Table(Cur(stack)) = [f \in {"square"} |-> Push(3)]
    /\ Pending(Cur(stack)) = None

C6_CallOnce ==
    [][/\ ParentsKept
       /\ (running /\ Kind(stack) = "FunctionCall"
               /\ Fetch(Cur(stack)).name \in DOMAIN Table(Cur(stack))) =>
              /\ Len(stack') = Len(stack) + 1
              /\ stack'[Len(stack)] = Cur(stack)
              /\ Cur(stack').cells = Cur(stack).cells
              /\ Cur(stack').program = Some(<<Table(Cur(stack))[Fetch(Cur(stack)).name]>>)
              /\ Cur(stack').pc = 1
       /\ (running /\ Kind(stack) = "CallReturn") =>
              /\ Len(stack') = Len(stack) - 1
              /\ Cur(stack).pc = 2
              /\ Cur(stack') =
                     [Parent(stack) EXCEPT
                         !.pc = @ + 1,
                         !.cells = IF Cur(stack).cells = <<>> THEN @
                                   ELSE Append(@, Cur(stack).cells[Len(Cur(stack).cells)])]
       /\ (~running' /\ hist' = <<test_simple_function>>) =>
              stack'[1].cells = <<3, 9>> /\ result' = [err |-> Ok, val |-> Some(9)]]_vars

\* test_simple_function has run: square was called on [3] and 9 was appended.
C6_Witness ==
    /\ ~running
    /\ hist = <<test_simple_function>>
    /\ stack[1].cells = <<3, 9>>

\* The programs run before the latest one, as one program.
Prior == Concat(SubSeq(hist, 1, Len(hist) - 1))

\* C7: when an instruction fails, the machines above it are left one after the
\* other with the same error, and run returns exactly that error with the cell
\* store as the failing instruction left it; the instructions before the
\* failing one, k, ran without error, and the store and the error are those of
\* the program cut after k: no later instruction has been evaluated.
C7_FirstError ==
    [][/\ (running /\ Len(stack) > 1 /\ Cur(stack).err \in MachineErrors) =>
              /\ Len(stack') = Len(stack) - 1
              /\ Cur(stack') = [Parent(stack) EXCEPT !.err = Cur(stack).err]
       /\ (running /\ Len(stack) = 1 /\ stack[1].err \in MachineErrors) =>
              /\ ~running'
              /\ result' = [err |-> stack[1].err, val |-> None]
              /\ stack'[1].cells = stack[1].cells
              /\ RunFresh(Prior).err = Ok =>
                     LET k == stack[1].pc
                         cut == RunFresh(Prior \o SubSeq(Program(stack[1]), 1, k))
                     IN  /\ RunFresh(Prior \o SubSeq(Program(stack[1]), 1, k - 1)).err = Ok
                         /\ cut.err = stack[1].err
                         /\ cut.cells = stack[1].cells]_vars

\* Pop 2 on the store [3] failed as the second of three instructions: the run
\* returned StackUnderflow, the store is empty, and Push 5 was not evaluated.
C7_Witness ==
    /\ ~running
    /\ hist = <<<<Push(3), Pop(2), Push(5)>>>>
    /\ result = [err |-> "StackUnderflow", val |-> None]
    /\ stack[1].cells = <<>>

\* C8: machine state persists across runs: when the first program ran without
\* error, after the second run the result, cells, base, base stack, function
\* table and pending name are those of one run of the two programs, one after
\* the other, on a fresh machine; a result that is no error is the last cell,
\* or nothing when the store is empty.
C8_StatePersists ==
    (~running /\ Len(hist) = 2 /\ RunFresh(hist[1]).err = Ok) =>
        LET once == RunFresh(hist[1] \o hist[2])
        IN  /\ result = RunResult(once)
            /\ stack[1].cells = once.cells
            /\ stack[1].base = once.base
            /\ stack[1].base_stack = once.base_stack
            /\ stack[1].function_data = once.function_data
            /\ result.err = Ok => result.val = last(stack[1].cells)

\* A first run pushed 3 and declared square; the second run's first instruction
\* became its body, and the result is the cell the first run pushed.
C8_Witness ==
    /\ ~running
    /\ hist = <<<<Push(3), FunctionDefine("square")>>, <<square_body>>>>
    /\ Table(stack[1]) = [f \in {"square"} |-> square_body]
    /\ Pending(stack[1]) = None
    /\ stack[1].cells = <<3>>
    /\ result = [err |-> Ok, val |-> Some(3)]

\* C9: once run_until(P, n) on a fresh machine and run of P cut to its first n
\* instructions on another fresh machine have both returned, the two results
\* (value, nothing or error) are equal and the two stores are equal; for n at
\* or past the length of P the second call is run(P).
C9_RunUntil ==
    /\ um.pc > 0 =>
           /\ ur.program = Truncate(um.program, um.limit)
           /\ ur.limit = Len(ur.program)
           /\ um.limit >= Len(um.program) => ur.program = um.program
    /\ (um.result # NoResult /\ ur.result # NoResult) =>
           /\ um.result = ur.result
           /\ um.cells = ur.cells

\* run_until stopped after two of three instructions, before a division by
\* zero, and so did run of the first two.
C9_Witness ==
    /\ um.program = <<Push(3), Push(0), Div(0, 1)>>
    /\ um.limit = 2
    /\ um.result = [err |-> Ok, val |-> Some(0)]
    /\ ur.result = [err |-> Ok, val |-> Some(0)]
    /\ um.cells = <<3, 0>>

\* C11: ReadReverse(k) on a store of length L: for 0 <= k < L it appends a copy
\* of the cell at index L-1-k and leaves the existing cells unchanged; for
\* k >= L it fails with InvalidCell and the store is unchanged.
C11_ReadReverse ==
    [][(running /\ Kind(stack) = "AluUnaryCell" /\ Fetch(Cur(stack)).op = "ReadReverse") =>
           LET m == Cur(stack)
               k == Fetch(m).a
               L == Len(m.cells)
               after == Cur(stack')
           IN  IF k < L
               THEN after.err = Ok /\ after.cells = Append(m.cells, m.cells[L - k])
               ELSE after.err = "InvalidCell" /\ after.cells = m.cells]_vars

\* C12: Rebase on a machine with base b and a store of length L: if b > L it
\* fails with RebaseError and the store is unchanged; if b <= L the store
\* becomes the cells formerly at indices b .. L-1, in order, at indices
\* 0 .. L-b-1.
C12_Rebase ==
    [][(running /\ Kind(stack) = "AluNullary" /\ Fetch(Cur(stack)).op = "Rebase") =>
           LET m == Cur(stack)
               b == m.base
               L == Len(m.cells)
               after == Cur(stack')
           IN  /\ Len(stack') = Len(stack)
               /\ IF b > L
                  THEN after.err = "RebaseError" /\ after.cells = m.cells
                  ELSE /\ after.err = Ok
                       /\ Len(after.cells) = L - b
                       /\ \A i \in 0 .. L - b - 1 : after.cells[i + 1] = m.cells[b + i + 1]]_vars

\* A block that inherited [3] and pushed 4 has rebased: its store is [4].
C12_Witness ==
    /\ running
    /\ hist = <<<<Push(3), Block(<<Push(4), Rebase, ReadReverse(0)>>)>>>>
    /\ Len(stack) = 2
    /\ Cur(stack).pc = 3
    /\ Cur(stack).base = 1
    /\ Cur(stack).cells = <<4>>
    /\ Cur(stack).err = Ok

\* A block that popped the cell it inherited has failed to rebase: its base, 1,
\* is past the end of its store.
C12_WitnessError ==
    /\ running
    /\ hist = <<<<Push(3), Block(<<Pop(1), Rebase>>)>>>>
    /\ Len(stack) = 2
    /\ Cur(stack).base = 1
    /\ Cur(stack).cells = <<>>
    /\ Cur(stack).err = "RebaseError"

\* The current machine is about to evaluate Not, Read or a binary instruction.
ReadsCells ==
    /\ running
    /\ \/ Kind(stack) = "AluBinary"
       \/ Kind(stack) = "AluUnaryCell" /\ Fetch(Cur(stack)).op \in {"Not", "Read"}
\* The operand indices of an instruction that reads cells.
Operands(instr) == IF instr.shape = "AluBinary" THEN {instr.a, instr.b} ELSE {instr.a}

\* C13 as stated: Not, Read and every binary instruction fail with InvalidCell,
\* leaving the store unchanged, if an operand index is >= len(cells), and
\* otherwise append exactly one value and leave every existing cell unchanged.
C13_Operands ==
    [][ReadsCells =>
           LET m == Cur(stack)
               L == Len(m.cells)
               after == Cur(stack')
           IN  IF \E i \in Operands(Fetch(m)) : i >= L
               THEN after.err = "InvalidCell" /\ after.cells = m.cells
               ELSE /\ after.err = Ok
                    /\ Len(after.cells) = L + 1
                    /\ SubSeq(after.cells, 1, L) = m.cells]_vars

\* C13, amended: Not, Read and every binary instruction fail with InvalidCell,
\* leaving the store unchanged, if and only if an operand index is >=
\* len(cells); otherwise the instruction either appends exactly one value and
\* leaves every existing cell unchanged, or leaves the whole store unchanged
\* because it is a Div that fails with DivisionByZero or an Add, Mul or shift
\* that aborts on overflow in a build with overflow checks.
C13_OperandsOrFailure ==
    [][ReadsCells =>
           LET m == Cur(stack)
               L == Len(m.cells)
               op == Fetch(m).op
               after == Cur(stack')
           IN  /\ Len(stack') = Len(stack)
               /\ IF \E i \in Operands(Fetch(m)) : i >= L
                  THEN after.err = "InvalidCell" /\ after.cells = m.cells
                  ELSE \/ /\ after.err = Ok
                          /\ Len(after.cells) = L + 1
                          /\ SubSeq(after.cells, 1, L) = m.cells
                       \/ /\ after.cells = m.cells
                          /\ \/ after.err = "DivisionByZero" /\ op = "Div"
                             \/ /\ after.err = Panic
                                /\ overflow_checks
                                /\ op \in {"Add", "Mul", "ShiftLeftLogical",
                                           "ShiftRightLogical", "ShiftRightArithmetic"}]_vars

\* An Add whose second operand index is past the end of the store [5] has
\* failed with InvalidCell.
C13_Witness ==
    /\ running
    /\ hist = <<<<Push(5), Add(0, 1)>>>>
    /\ Cur(stack).err = "InvalidCell"
    /\ Cur(stack).cells = <<5>>
    /\ Cur(stack).pc = 2

\* The current machine is about to evaluate a binary instruction of the given
\* opcodes whose two operand indices are inside the store.
Computes(ops) ==
    /\ running
    /\ Kind(stack) = "AluBinary"
    /\ Fetch(Cur(stack)).op \in ops
    /\ \A i \in Operands(Fetch(Cur(stack))) : i < Len(Cur(stack).cells)
\* The values of the two operand cells.
Left == Cur(stack).cells[Fetch(Cur(stack)).a + 1]
Right == Cur(stack).cells[Fetch(Cur(stack)).b + 1]
\* The step appended v to the current machine's store and did nothing else to it.
Appended(v) == Cur(stack').err = Ok /\ Cur(stack').cells = Append(Cur(stack).cells, v)

\* C14: Div(i, j) fails with DivisionByZero exactly when the divisor cell holds
\* 0, appending nothing; for every non-zero divisor, the operands (minimum
\* value, -1) included, it does not report DivisionByZero, and whenever the
\* quotient is representable it appends the quotient truncated toward zero.
C14_Div ==
    [][Computes({"Div"}) =>
           /\ Cur(stack').err = "DivisionByZero" <=> Right = 0
           /\ Right = 0 => Cur(stack').cells = Cur(stack).cells
           /\ (Right # 0 /\ InRange(TruncDiv(Left, Right))) =>
                  Appended(TruncDiv(Left, Right))]_vars

\* C15: Add and Mul are wraparound-free: whenever one of them appends a value,
\* the value is the mathematical sum or product of the operand cells, and when
\* that lies outside the signed range of an Immediate nothing is appended.
C15_NoWraparound ==
    [][Computes({"Add", "Mul"}) =>
           LET exact == IF Fetch(Cur(stack)).op = "Add" THEN Left + Right ELSE Left * Right
           IN  /\ Cur(stack').cells # Cur(stack).cells => Appended(exact)
               /\ ~InRange(exact) => Cur(stack').cells = Cur(stack).cells]_vars

\* The last cell of the current machine after the step.
Result == Cur(stack').cells[Len(Cur(stack').cells)]

\* C16: for a shift count c inside the width, each shift appends one value r:
\* ShiftRightLogical the unsigned pattern of a divided by 2^c, rounded down,
\* read as signed (so r >= 0 when c >= 1); ShiftRightArithmetic floor(a / 2^c) (so (-8, 2) gives
\* -2); ShiftLeftLogical the low bits of a * 2^c read as signed (so (1, 2)
\* gives 4).
C16_Shifts ==
    [][(Computes({"ShiftLeftLogical", "ShiftRightLogical", "ShiftRightArithmetic"})
            /\ 0 <= Right /\ Right <= Bits - 1) =>
           LET op == Fetch(Cur(stack)).op
               a == Left
               c == Right
           IN  /\ Appended(Result)
               /\ op = "ShiftRightLogical" =>
                      /\ ToUnsigned(Result) * Pow2(c) <= ToUnsigned(a)
                      /\ ToUnsigned(a) < (ToUnsigned(Result) + 1) * Pow2(c)
                      /\ c >= 1 => Result >= 0
               /\ op = "ShiftRightArithmetic" =>
                      /\ Result * Pow2(c) <= a
                      /\ a < (Result + 1) * Pow2(c)
                      /\ (a = 0 - 8 /\ c = 2) => Result = 0 - 2
               /\ op = "ShiftLeftLogical" =>
                      /\ ToUnsigned(Result) = (ToUnsigned(a) % Pow2(Bits - c)) * Pow2(c)
                      /\ (a = 1 /\ c = 2) => Result = 4]_vars

\* ShiftRightLogical of -8 by 2 has appended the zero-filled value, 2^(Bits-2) - 2.
C16_Witness ==
    /\ running
    /\ hist = <<<<Push(0 - 8), Push(2), AluBinary("ShiftRightLogical", 0, 1)>>>>
    /\ Cur(stack).err = Ok
    /\ Cur(stack).cells = <<0 - 8, 2, Pow2(Bits - 2) - 2>>

SetOps ==
    {"SetEqual", "SetNotEqual", "SetLessThan", "SetLessThanOrEqual",
     "SetGreaterThan", "SetGreaterThanOrEqual"}
\* The ordinary signed comparison an opcode names.
Compares(op, a, b) ==
    CASE op = "SetEqual" -> a = b
      [] op = "SetNotEqual" -> a # b
      [] op = "SetLessThan" -> a < b
      [] op = "SetLessThanOrEqual" -> a <= b
      [] op = "SetGreaterThan" -> a > b
      [] op = "SetGreaterThanOrEqual" -> a >= b
\* What the code computes for two opcodes on the same operands adds up to 1.
Complementary(op1, op2, a, b) == Calculate(op1, a, b).val + Calculate(op2, a, b).val = 1

\* C17: each of the six Set* instructions appends exactly 1 when the signed
\* comparison of the two operand cells holds and exactly 0 otherwise; on the
\* same operands SetEqual and SetNotEqual give complementary results, as do
\* SetLessThan/SetGreaterThanOrEqual and SetGreaterThan/SetLessThanOrEqual.
C17_Comparisons ==
    [][Computes(SetOps) =>
           /\ Appended(IF Compares(Fetch(Cur(stack)).op, Left, Right) THEN 1 ELSE 0)
           /\ Complementary("SetEqual", "SetNotEqual", Left, Right)
           /\ Complementary("SetLessThan", "SetGreaterThanOrEqual", Left, Right)
           /\ Complementary("SetGreaterThan", "SetLessThanOrEqual", Left, Right)]_vars

\* SetLessThan of -8 and 2 has appended 1: the comparison is signed.
C17_Witness ==
    /\ running
    /\ hist = <<<<Push(0 - 8), Push(2), AluBinary("SetLessThan", 0, 1)>>>>
    /\ Cur(stack).err = Ok
    /\ Cur(stack).cells = <<0 - 8, 2, 1>>

\* The number of Block instructions around the instruction machine i is
\* executing: a block child is one Block deeper than its parent, and the body a
\* function-call child runs starts outside any Block.
RECURSIVE Nesting(_)
Nesting(i) == IF i = 1 THEN 0 ELSE IF BlockChild(i) THEN Nesting(i - 1) + 1 ELSE 0

\* C18 as stated: in every machine instance, at every point of execution, the
\* depth of its base_stack equals the current block-nesting depth.
C18_DepthIsNesting ==
    \A i \in 1 .. Len(stack) : Len(stack[i].base_stack) = Nesting(i)

\* C18, amended: in every machine instance, at every point of execution, the
\* depth of its base_stack is 1 if the instance is a block child, whatever the
\* number of Blocks around that block, and 0 if it is the top-level machine or a
\* function-call child; its one entry is the base of the parent machine.
C18_DepthOfChild ==
    \A i \in 1 .. Len(stack) :
        IF BlockChild(i)
        THEN stack[i].base_stack = <<stack[i - 1].base>>
        ELSE stack[i].base_stack = <<>>

\* test_nested is inside its inner block: two Blocks deep, one saved base.
C18_Witness ==
    /\ running
    /\ hist = <<test_nested>>
    /\ Len(stack) = 3
    /\ BlockChild(2) /\ BlockChild(3)
    /\ stack[2].base_stack = <<0>>
    /\ stack[3].base_stack = <<1>>
    /\ stack[3].cells = <<3, 4, 5>>

\* Machine i is the current machine and evaluates an instruction of opcode op in
\* this step.
Executes(i, op) ==
    /\ running
    /\ i = Len(stack)
    /\ Len(stack') = Len(stack)
    /\ Kind(stack) \in {"AluNullary", "AluUnaryImm"}
    /\ Fetch(stack[i]).op = op
\* after is before without one or more of its last cells.
TailRemoved(before, after) ==
    Len(after) < Len(before) /\ after = SubSeq(before, 1, Len(after))
\* after is before without its cells before index base.
HeadRemoved(before, after, base) ==
    base <= Len(before) /\ after = SubSeq(before, base + 1, Len(before))

\* C19: every step changes the cell store of every machine that exists before
\* and after it in one of four ways only: the store is unchanged, one value is
\* appended, cells are removed from the tail (by Pop), or the cells before base
\* are removed from the head (by Rebase).
C19_StoreChanges ==
    [][\A i \in 1 .. Len(stack) :
           i <= Len(stack') =>
               \/ AtMostOneAppended(stack[i].cells, stack'[i].cells)
               \/ Executes(i, "Pop") /\ TailRemoved(stack[i].cells, stack'[i].cells)
               \/ /\ Executes(i, "Rebase")
                  /\ HeadRemoved(stack[i].cells, stack'[i].cells, stack[i].base)]_vars

\* Pop 1 has removed the last cell of [3, 5].
C19_Witness ==
    /\ running
    /\ hist = <<<<Push(3), Push(5), Pop(1)>>>>
    /\ Len(stack) = 1
    /\ stack[1].pc = 4
    /\ stack[1].cells = <<3>>

\* C20: evaluating an instruction returns a result, success or a MachineError:
\* no machine ever aborts while evaluating one, and no run ends without a
\* result.
C20_AlwaysAResult ==
    /\ \A i \in 1 .. Len(stack) : stack[i].err # Panic
    /\ result.err # Panic

\* C10: Pop(n) on a store of length L: for n < 0 it fails with InvalidCell and
\* the store is as before; for 0 <= n <= L it succeeds and the store is its first
\* L - n cells; for n > L it fails with StackUnderflow and the store is empty.
C10_Pop ==
    [][(running /\ Kind(stack) = "AluUnaryImm" /\ Fetch(Cur(stack)).op = "Pop") =>
           LET m == Cur(stack)
               n == Fetch(m).a
               L == Len(m.cells)
               after == Cur(stack')
           IN  /\ Len(stack') = Len(stack)
               /\ after.pc = IF 0 <= n /\ n <= L THEN m.pc + 1 ELSE m.pc
               /\ IF n < 0 THEN after.err = "InvalidCell" /\ after.cells = m.cells
                  ELSE IF n <= L THEN after.err = Ok /\ after.cells = SubSeq(m.cells, 1, L - n)
                  ELSE after.err = "StackUnderflow" /\ after.cells = <<>>]_vars

\* Pop 2 on the store [3] has failed with StackUnderflow and emptied the store.
C10_Witness ==
    /\ running
    /\ hist = <<<<Push(3), Pop(2)>>>>
    /\ Cur(stack).err = "StackUnderflow"
    /\ Cur(stack).cells = <<>>
    /\ Cur(stack).pc = 2

\* Every instruction of p is a Push.
OnlyPushes(p) == \A i \in 1 .. Len(p) : p[i].shape = "AluUnaryImm" /\ p[i].op = "Push"
\* The immediates of the first n instructions of p, in order.
Immediates(p, n) == [i \in 1 .. n |-> p[i].a]

\* C21: for every program of Push instructions only, run on a fresh machine: no
\* instruction fails and no child machine is made, the store holds the
\* immediates of the pushes evaluated so far, in order, and when the run returns
\* it has succeeded, the store has one cell per instruction, cells[i] is the
\* immediate of the i-th Push, and the result is the last pushed value (nothing
\* for the program of no instruction).
C21_PushOnly ==
    (Len(hist) = 1 /\ OnlyPushes(hist[1])) =>
        LET p == hist[1] IN
        /\ Len(stack) = 1
        /\ stack[1].err = Ok
        /\ running => stack[1].cells = Immediates(p, stack[1].pc - 1)
        /\ ~running =>
               /\ result.err = Ok
               /\ Len(stack[1].cells) = Len(p)
               /\ \A i \in 1 .. Len(p) : stack[1].cells[i] = p[i].a
               /\ result.val = IF p = <<>> THEN None ELSE Some(p[Len(p)].a)

\* The run of Push MIN, Push 0, Push MAX has returned MAX, with the three values
\* in the store in the order they were pushed.
C21_Witness ==
    /\ ~running
    /\ hist = <<<<Push(MinImm), Push(0), Push(MaxImm)>>>>
    /\ stack[1].cells = <<MinImm, 0, MaxImm>>
    /\ result = [err |-> Ok, val |-> Some(MaxImm)]

\* C22: when the child run of a Block or of a FunctionCall fails, the parent's
\* instruction fails with the same error and the parent's cells, base, base
\* stack and function table (and the position of its iterator) are exactly as
\* they were before that instruction: the parent is the machine the child was
\* made from, nothing touches it while the child runs, and at the failure it
\* takes the child's error and nothing else, whatever the child had pushed,
\* popped or rebased.
C22_ChildFailure ==
    [][/\ ParentsKept
       /\ (running /\ Kind(stack) \in {"Block", "FunctionCall"} /\ Len(stack') = Len(stack) + 1) =>
              stack'[Len(stack)] = Cur(stack)
       /\ (running /\ Kind(stack) = "ChildFail") =>
              /\ Len(stack') = Len(stack) - 1
              /\ Cur(stack').err = Cur(stack).err
              /\ Cur(stack').cells = Parent(stack).cells
              /\ Cur(stack').base = Parent(stack).base
              /\ Cur(stack').base_stack = Parent(stack).base_stack
              /\ Cur(stack').function_data = Parent(stack).function_data
              /\ Cur(stack').pc = Parent(stack).pc]_vars

\* A call of f, whose body Pop 2 emptied the callee's copy of [3] and then
\* failed, has failed with StackUnderflow on a caller that still holds [3].
C22_Witness ==
    /\ running
    /\ Len(stack) = 1
    /\ hist = <<<<Push(3), FunctionDefine("f"), Pop(2), FunctionCall("f")>>>>
    /\ stack[1].err = "StackUnderflow"
    /\ stack[1].pc = 4
    /\ stack[1].cells = <<3>>
    /\ Table(stack[1]) = [n \in {"f"} |-> Pop(2)]

\* A block that pushed 0 onto its copy of [3] and divided by it has failed with
\* DivisionByZero on a parent that still holds [3].
C22_WitnessBlock ==
    /\ running
    /\ Len(stack) = 1
    /\ hist = <<<<Push(3), Block(<<Push(0), Div(0, 1)>>)>>>>
    /\ stack[1].err = "DivisionByZero"
    /\ stack[1].pc = 2
    /\ stack[1].cells = <<3>>

\* The current machine is about to evaluate the second of two FunctionDefine
\* instructions that follow each other in its list.
SecondOfPair ==
    /\ Evaluating
    /\ Cur(stack).pc >= 2
    /\ Fetch(Cur(stack)).op = "FunctionDefine"
    /\ JustEvaluated(Cur(stack)).op = "FunctionDefine"
\* The names the two instructions of the pair define.
PairFirst == JustEvaluated(Cur(stack)).name
PairSecond == Fetch(Cur(stack)).name

C24_BaseRestored ==
    [][/\ ParentsKept
       /\ (running /\ Kind(stack) = "Block") =>
              Len(stack') = Len(stack) + 1 /\ stack'[Len(stack)] = Cur(stack)
       /\ (running /\ Kind(stack) = "BlockReturn") =>
              /\ Len(stack') = Len(stack) - 1
              /\ Cur(stack').err = Ok
              /\ Cur(stack').pc = Parent(stack).pc + 1
              /\ Cur(stack').base = Parent(stack).base
              /\ Cur(stack').base_stack = Parent(stack).base_stack]_vars

\* Inside a block entered with [3], whose base is 1, an inner block that popped
\* and pushed has completed: the outer block is at its third instruction, has
\* gained 7 and still has the base 1.
C24_Witness ==
    /\ running
    /\ hist = <<<<Push(3), Block(<<Push(4), Block(<<Pop(1), Push(7)>>), Rebase>>)>>>>
    /\ Len(stack) = 2
    /\ stack[2].pc = 3
    /\ stack[2].err = Ok
    /\ stack[2].cells = <<3, 4, 7>>
    /\ stack[2].base = 1
    /\ stack[1].base = 0

\* An instruction that is no function instruction and contains none.
RECURSIVE NoFunctions(_)
NoFunctions(instr) ==
    /\ instr.shape # "AluFunction"
    /\ \A k \in 1 .. Len(instr.body) : NoFunctions(instr.body[k])

\* The body the caller's FunctionCall has run.
CalledBody == Table(Parent(stack))[Fetch(Parent(stack)).name]
\* The child run of a FunctionCall whose stored body is a Block without function
\* instructions returns to the caller in this step, with a value or an error.
BlockBodyReturns ==
    /\ running
    /\ Kind(stack) \in {"CallReturn", "ChildFail"}
    /\ Fetch(Parent(stack)).op = "FunctionCall"
    /\ CalledBody.shape = "Block"
    /\ NoFunctions(CalledBody)
\* The caller after evaluating the body inline, as the instruction at the call
\* site, instead of the call.
Inline == Drive(<<[Parent(stack) EXCEPT !.program = Some(<<CalledBody>>), !.pc = 1]>>)

\* C25 as stated: for a stored body that is a Block B without function
\* instructions, FunctionCall(name) has the same effect on the caller's cell
\* store as evaluating B inline at the call site: the same value is appended,
\* and nothing is appended when B finishes with an empty cell store.
C25_CallIsInline ==
    [][BlockBodyReturns =>
           /\ Cur(stack').err = Inline.err
           /\ Cur(stack').cells = Inline.cells]_vars

\* C25, amended: for a stored body that is a Block B without function
\* instructions, FunctionCall(name) fails with the error the inline B fails
\* with, leaving the caller's store unchanged, and appends the value the inline
\* B appends when B finishes with a non-empty store; when B finishes with an
\* empty store the inline B appends nothing, and the call appends a copy of the
\* caller's last cell, or nothing if the caller's store is empty.
C25_CallAppendsLast ==
    [][BlockBodyReturns =>
           LET caller == Parent(stack).cells
               after == Cur(stack').cells
           IN  /\ Cur(stack').err = Inline.err
               /\ IF Inline.err # Ok THEN after = caller
                  ELSE IF Inline.cells # caller THEN after = Inline.cells
                  ELSE after = IF caller = <<>> THEN caller
                               ELSE Append(caller, caller[Len(caller)])]_vars

\* f, whose body is Block[Pop 2], has been called on [3, 5]: the block ended
\* with an empty store and the caller has gained a copy of its last cell.
C25_Witness ==
    /\ running
    /\ Len(stack) = 1
    /\ hist = <<<<Push(3), Push(5), FunctionDefine("f"), Block(<<Pop(2)>>), FunctionCall("f")>>>>
    /\ stack[1].pc = 6
    /\ stack[1].err = Ok
    /\ stack[1].cells = <<3, 5, 5>>

\* f, whose body is the squaring block, has been called on [3, 5] and has
\* appended 25, as the block does inline.
C25_WitnessValue ==
    /\ running
    /\ Len(stack) = 1
    /\ hist = <<<<Push(3), Push(5), FunctionDefine("f"), square_body, FunctionCall("f")>>>>
    /\ stack[1].pc = 6
    /\ stack[1].cells = <<3, 5, 25>>

\* The names of the FunctionDefine instructions among the first n of a list.
DefinedIn(p, n) == {p[j].name : j \in {k \in 1 .. n : p[k].op = "FunctionDefine"}}
\* The function data of a machine just made by Machine::new.
NoFunctionData == [function_table |-> EmptyTable, new_function_declared |-> None]

\* C26: function tables are not shared across nesting.  The child machine of
\* every Block and every FunctionCall starts with an empty function table and
\* no pending name; what a child's table holds and what is pending in it comes
\* from its own list only; so a FunctionCall(name) evaluated in a child whose
\* own list has not defined name fails with FunctionUndefined, whatever the
\* enclosing machines' tables hold; and when the nested run ends, with a value
\* or an error, the parent's table and pending name are what they were before
\* it: a definition or a pending name made inside is absent from them.
C26_TablesNotShared ==
    [][/\ (running /\ Len(stack') = Len(stack) + 1) =>
              Cur(stack').function_data = NoFunctionData
       /\ \A i \in 2 .. Len(stack) :
              LET m == stack[i] IN
              /\ DOMAIN Table(m) \subseteq DefinedIn(Program(m), m.pc - 1)
              /\ \A f \in DOMAIN Table(m) : \E j \in 2 .. m.pc - 1 : Table(m)[f] = Program(m)[j]
              /\ IsSome(Pending(m)) => Unwrap(Pending(m)) \in DefinedIn(Program(m), m.pc - 1)
       /\ (running /\ Len(stack) > 1 /\ Kind(stack) = "FunctionCall"
               /\ Fetch(Cur(stack)).name \notin DefinedIn(Program(Cur(stack)), Cur(stack).pc - 1)) =>
              /\ Len(stack') = Len(stack)
              /\ Cur(stack').err = "FunctionUndefined"
       /\ (running /\ Len(stack') = Len(stack) - 1) =>
              Cur(stack').function_data = Parent(stack).function_data]_vars

\* A FunctionCall(f) inside a block has failed with FunctionUndefined while f is
\* bound in the machine that runs the block.
C26_Witness ==
    /\ running
    /\ Len(stack) = 2
    /\ BlockChild(2)
    /\ Cur(stack).err = "FunctionUndefined"
    /\ Fetch(Cur(stack)) = FunctionCall("f")
    /\ Table(stack[1]) = [n \in {"f"} |-> Push(9)]
    /\ Table(stack[2]) = EmptyTable

\* A block that bound g to Push 7 has ended, and FunctionCall(g) after it has
\* failed with FunctionUndefined: the parent's table holds f only.
C26_WitnessDefinition ==
    /\ running
    /\ Len(stack) = 1
    /\ hist = <<<<FunctionDefine("f"), Push(9), Block(<<FunctionDefine("g"), Push(7)>>),
                 FunctionCall("g")>>>>
    /\ stack[1].pc = 4
    /\ stack[1].err = "FunctionUndefined"
    /\ DOMAIN Table(stack[1]) = {"f"}
    /\ Pending(stack[1]) = None

\* The largest number of a finite set of naturals, 0 for the empty set.
MaxOf(S) == IF S = {} THEN 0 ELSE CHOOSE x \in S : \A y \in S : y <= x

\* Weight(instr, bodies): a bound on the number of steps the evaluation of instr
\* takes, child machines included, on a machine whose function table holds
\* instructions of the set bodies only.  A block child runs its list on an empty
\* table, which its list alone can fill, and not with its first instruction; a
\* function-call child runs one stored instruction on an empty table.
RECURSIVE Weight(_, _), SumWeight(_, _, _)
Weight(instr, bodies) ==
    CASE instr.shape = "Block" ->
            2 + SumWeight(instr.body, 1, {instr.body[k] : k \in 2 .. Len(instr.body)})
      [] instr.op = "FunctionCall" -> 2 + MaxOf({1 + Weight(z, {}) : z \in bodies})
      [] OTHER -> 1
SumWeight(p, from, bodies) ==
    IF from > Len(p) THEN 0 ELSE Weight(p[from], bodies) + SumWeight(p, from + 1, bodies)

\* The instructions the table of m holds or may come to hold: its entries, the
\* instruction a pending name is about to take, and the later ones of its list.
Bodies(m) ==
    {Table(m)[f] : f \in DOMAIN Table(m)}
    \cup {Program(m)[k] : k \in (IF IsSome(Pending(m)) THEN m.pc ELSE m.pc + 1) .. Len(Program(m))}

\* A bound on the steps machine i of the stack has left: its return, and the
\* instructions of its list from the one its iterator is at (after the one its
\* child is running, for a machine that waits for a child); none once it failed.
Remaining(i) ==
    LET m == stack[i] IN
    IF m.err # Ok THEN 0
    ELSE 1 + SumWeight(Program(m), IF i = Len(stack) THEN m.pc ELSE m.pc + 1, Bodies(m))

RECURSIVE SumRemaining(_)
SumRemaining(i) == IF i = 0 THEN 0 ELSE Remaining(i) + SumRemaining(i - 1)
\* A bound on the steps left in the run in progress, over all its machines.
Measure == SumRemaining(Len(stack))

\* C27: run terminates on every finite program.  The natural number Measure,
\* which is finite when run is called, gets smaller with every step of the
\* run, over all nested child machines, so the number of instruction
\* evaluations of a run is at most its value at the call; a function body that
\* calls its own name is no exception, the inner call ending with
\* FunctionUndefined on the child's empty table.
C27_Terminates ==
    [][/\ (running /\ running') => Measure' < Measure
       /\ (running /\ Len(stack) > 1 /\ Kind(stack) = "FunctionCall"
               /\ Fetch(Cur(stack)) = Fetch(Parent(stack))
               /\ Program(Cur(stack)) = <<Fetch(Cur(stack))>>) =>
              Len(stack') = Len(stack) /\ Cur(stack').err = "FunctionUndefined"]_vars

\* square is bound to the instruction FunctionCall(square); the call of square
\* has run that instruction in a child, where it has failed with
\* FunctionUndefined instead of calling again.
C27_Witness ==
    /\ running
    /\ Len(stack) = 2
    /\ hist = <<<<FunctionDefine("square"), FunctionCall("square"), FunctionCall("square")>>>>
    /\ Table(stack[1]) = [f \in {"square"} |-> FunctionCall("square")]
    /\ Fetch(stack[2]) = FunctionCall("square")
    /\ stack[2].err = "FunctionUndefined"

\* The length of the store machine i was made with a copy of, for a block
\* child (its parent's store, which is not touched while the child lives), and
\* 0 for the top-level machine and for a function-call child.
EntryBase(i) == IF BlockChild(i) THEN Len(stack[i - 1].cells) ELSE 0

\* C28: the base of a machine instance never changes during its lifetime: it
\* is 0 for the top-level machine and for every function-call child, whose base
\* stacks stay empty, and the length of the copied store for a block child.
\* Rebase does not reset base: on a machine of base b it removes the first b
\* cells when the store has at least b and fails with RebaseError otherwise,
\* leaving the store unchanged, each time it is evaluated; so a top-level
\* Rebase leaves the store unchanged, and a second Rebase in a block entered
\* with L cells removes another L cells or fails.
C28_BaseFixed ==
    [][/\ \A i \in 1 .. Len(stack') :
              /\ stack'[i].base = EntryBase(i)'
              /\ ~BlockChild(i)' => stack'[i].base_stack = <<>>
              /\ i <= Len(stack) => stack'[i].base = stack[i].base
       /\ (running /\ Kind(stack) = "AluNullary" /\ Fetch(Cur(stack)).op = "Rebase") =>
              LET m == Cur(stack)
                  n == Cur(stack')
                  L == EntryBase(Len(stack))
              IN  /\ Len(stack') = Len(stack)
                  /\ IF Len(m.cells) >= L
                     THEN n.err = Ok /\ n.cells = SubSeq(m.cells, L + 1, Len(m.cells))
                     ELSE n.err = "RebaseError" /\ n.cells = m.cells
                  /\ Len(stack) = 1 => n.cells = m.cells]_vars

\* A block entered with [3] pushed 4 and 6 and has rebased twice: the first
\* Rebase left [4, 6], the second [6], and its base is still 1.
C28_Witness ==
    /\ running
    /\ hist = <<<<Push(3), Block(<<Push(4), Push(6), Rebase, Rebase>>)>>>>
    /\ Len(stack) = 2
    /\ stack[2].pc = 5
    /\ stack[2].err = Ok
    /\ stack[2].cells = <<6>>
    /\ stack[2].base = 1

\* A block entered with [3] has rebased to an empty store and failed to rebase
\* again: its base, 1, is past the end of the store.
C28_WitnessError ==
    /\ running
    /\ hist = <<<<Push(3), Block(<<Rebase, Rebase>>)>>>>
    /\ Len(stack) = 2
    /\ stack[2].pc = 2
    /\ stack[2].err = "RebaseError"
    /\ stack[2].cells = <<>>
    /\ stack[2].base = 1

\* A Rebase at the top level has left the store [3, 5] as it was.
C28_WitnessTop ==
    /\ running
    /\ hist = <<<<Push(3), Push(5), Rebase>>>>
    /\ Len(stack) = 1
    /\ stack[1].pc = 4
    /\ stack[1].cells = <<3, 5>>

\* C29: a Block appends a value to its parent if and only if the child's cell
\* store is non-empty when its list finishes, and the value is the child's last
\* cell, whether the block pushed that cell or inherited it from the parent:
\* Block[Nop] on the parent cells [3, 5] gives [3, 5, 5], and a block that pops
\* every cell (Block[Pop 2] on [3, 5]) appends nothing.
C29_BlockResult ==
    [][/\ (running /\ Kind(stack) = "BlockReturn") =>
              LET child == Cur(stack).cells
                  parent == Parent(stack).cells
              IN  /\ Len(stack') = Len(stack) - 1
                  /\ Cur(stack').err = Ok
                  /\ Cur(stack').cells =
                         IF child = <<>> THEN parent ELSE Append(parent, child[Len(child)])
       /\ (~running' /\ hist' = <<<<Push(3), Push(5), Block(<<Nop>>)>>>>) =>
              stack'[1].cells = <<3, 5, 5>> /\ result' = [err |-> Ok, val |-> Some(5)]
       /\ (~running' /\ hist' = <<<<Push(3), Push(5), Block(<<Pop(2)>>)>>>>) =>
              stack'[1].cells = <<3, 5>> /\ result' = [err |-> Ok, val |-> Some(5)]]_vars

\* Block[Nop] has run on [3, 5]: the parent has gained a copy of its own last
\* cell.
C29_Witness ==
    /\ ~running
    /\ hist = <<<<Push(3), Push(5), Block(<<Nop>>)>>>>
    /\ stack[1].cells = <<3, 5, 5>>
    /\ result = [err |-> Ok, val |-> Some(5)]

\* Block[Pop 2] has run on [3, 5]: the parent has gained nothing.
C29_WitnessEmpty ==
    /\ ~running
    /\ hist = <<<<Push(3), Push(5), Block(<<Pop(2)>>)>>>>
    /\ stack[1].cells = <<3, 5>>

====
